---- MODULE Spec2Model ----
(***************************************************************************)
(* botree EC2 utilities (src/botree/ec2.py): the EC2 class, a synchronous  *)
(* wrapper around a compute client (describe/start/stop instances) and a   *)
(* metrics client (get_metric_statistics).  The provider's inventory is    *)
(* the only state; every public method is one atomic step that reads it,   *)
(* possibly nudges one instance, and returns or raises.                    *)
(***************************************************************************)
EXTENDS Integers, Sequences, FiniteSets, TLC

VARIABLES
    reservations,   \* the provider's inventory: reservations holding instances
    datapoints,     \* the metrics provider: instance id -> datapoints of the trailing window
    result,         \* outcome of the most recent public call
    issued,         \* client requests sent by the most recent public call, in order
    lastIdCall      \* last get_instance_id answer taken under the current inventory

vars == <<reservations, datapoints, result, issued, lastIdCall>>

(* ------------------------------ bounds -------------------------------- *)

\* longest list of datapoints the metrics client returns for one query
MaxPoints == 2

(* --------------------------- value domains ----------------------------- *)

\* the provider's lifecycle states of an instance
LifecycleStates ==
    {"pending", "running", "shutting-down", "stopping", "stopped", "terminated"}

InstanceIds == {"i-1", "i-2"}

\* Python's optional str argument: None, or a str (possibly empty)
None == [given |-> FALSE, name |-> ""]
Str(s) == [given |-> TRUE, name |-> s]

\* names a caller passes; "" is a str that is falsy, "web" and "db" are tag values
NameStrings == {"", "web", "db"}
OptionalNames == {None} \cup {Str(s) : s \in NameStrings}

\* truthiness of an optional str, as `if instance_name:` tests it
Truthy(v) == v.given /\ v.name # ""

Tag(k, v) == [Key |-> k, Value |-> v]

\* the tag sets an instance may carry; HasTags = FALSE is an instance whose
\* description has no "Tags" key at all
TagChoices ==
    { [HasTags |-> FALSE, Tags |-> <<>>],
      [HasTags |-> TRUE,  Tags |-> <<Tag("Name", "web")>>],
      [HasTags |-> TRUE,  Tags |-> <<Tag("Env", "web"), Tag("Name", "db")>>] }

Instance(id, st, tg) ==
    [InstanceId |-> id, State |-> [Name |-> st], HasTags |-> tg.HasTags, Tags |-> tg.Tags]

(* ------------------------- provider inventory -------------------------- *)

RECURSIVE NoRepeat(_)
NoRepeat(s) ==
    IF Len(s) <= 1 THEN TRUE
    ELSE (\A i \in 2..Len(s) : s[i] # s[1]) /\ NoRepeat(Tail(s))

\* orders in which the provider may list instance identifiers
IdOrders ==
    { s \in UNION { [1..n -> InstanceIds] : n \in 0..Cardinality(InstanceIds) } :
        NoRepeat(s) }

\* ways the provider groups a list of instances into non-empty reservations
Groupings(insts) ==
    IF Len(insts) = 0 THEN { <<>> }
    ELSE IF Len(insts) = 1 THEN { <<[Instances |-> insts]>> }
    ELSE { <<[Instances |-> insts]>>,
           <<[Instances |-> <<insts[1]>>], [Instances |-> <<insts[2]>>]>> }

Inventories ==
    UNION { UNION { Groupings([i \in 1..Len(ids) |-> Instance(ids[i], st[i], tg[i])]) :
                      st \in [1..Len(ids) -> LifecycleStates],
                      tg \in [1..Len(ids) -> TagChoices] } :
            ids \in IdOrders }

\* instance.get("Tags", [])
TagsOf(instance) == IF instance.HasTags THEN instance.Tags ELSE <<>>

\* does the instance pass every filter of a describe request; the only filter
\* the wrapper builds is {"Name": "tag:Name", "Values": [name]}
PassesFilters(instance, Filters) ==
    \A i \in 1..Len(Filters) :
        Filters[i].Name = "tag:Name" =>
            \E j \in 1..Len(TagsOf(instance)) :
                /\ TagsOf(instance)[j].Key = "Name"
                /\ \E k \in 1..Len(Filters[i].Values) :
                       TagsOf(instance)[j].Value = Filters[i].Values[k]

RECURSIVE KeepReservations(_, _)
KeepReservations(rs, Filters) ==
    IF rs = <<>> THEN <<>>
    ELSE LET kept == SelectSeq(Head(rs).Instances,
                               LAMBDA inst : PassesFilters(inst, Filters))
             rest == KeepReservations(Tail(rs), Filters)
         IN  IF kept = <<>> THEN rest ELSE <<[Instances |-> kept]>> \o rest

\* ec2_client.describe_instances(Filters=filters): the provider filters
\* server-side and answers with the reservations that still hold an instance
describe_instances(Filters) ==
    [Reservations |-> KeepReservations(reservations, Filters)]

\* variant: the name tested with `is not None`, so that "" becomes a filter
BuildFilters_IsNotNone(instance_name) ==
    IF instance_name.given
    THEN <<[Name |-> "tag:Name", Values |-> <<instance_name.name>>]>>
    ELSE <<>>

\* the filter list every method builds from its optional name
BuildFilters(instance_name) ==
    IF Truthy(instance_name)
    THEN <<[Name |-> "tag:Name", Values |-> <<instance_name.name>>]>>
    ELSE <<>>

\* the describe request as logged in `issued`
DescribeRequest(Filters) ==
    [api |-> "describe_instances",
     params |-> IF Filters = <<>> THEN <<>> ELSE Filters[1].Values]

\* for reservation in ...: for instance in reservation["Instances"]: append
RECURSIVE FlattenInstances(_)
FlattenInstances(rs) ==
    IF rs = <<>> THEN <<>>
    ELSE Head(rs).Instances \o FlattenInstances(Tail(rs))

\* variant: the value of the first tag, whatever its key
FirstNameTag_FirstValue(tags) ==
    IF tags = <<>> THEN "N/A" ELSE Head(tags).Value

\* next((tag["Value"] for tag in instance.get("Tags", []) if tag["Key"] == "Name"), "N/A")
RECURSIVE FirstNameTag(_)
FirstNameTag(tags) ==
    IF tags = <<>> THEN "N/A"
    ELSE IF Head(tags).Key = "Name" THEN Head(tags).Value
    ELSE FirstNameTag(Tail(tags))

NameOf(instance) == FirstNameTag(TagsOf(instance))

\* the inventory once the provider has taken a stop or start request for
\* InstanceIds=ids and answered with CurrentState.Name = st
SetState(rs, ids, st) ==
    [r \in 1..Len(rs) |->
        [Instances |->
            [i \in 1..Len(rs[r].Instances) |->
                IF \E k \in 1..Len(ids) : rs[r].Instances[i].InstanceId = ids[k]
                THEN [rs[r].Instances[i] EXCEPT !.State = [Name |-> st]]
                ELSE rs[r].Instances[i]]]]

(* --------------------------- metrics provider -------------------------- *)

\* a datapoint of the "Average" statistic, the one statistic the query asks
\* for, so every datapoint carries it; Average is in eighths of a percent,
\* which binary floating point holds exactly
Point(a) == [Average |-> a]

\* 1/8 = 0.125, 3/8 = 0.375, 40.0 and 60.0
PointValues == {1, 3, 320, 480}

PointLists == UNION { [1..n -> {Point(a) : a \in PointValues}] : n \in 0..MaxPoints }

\* cw_client.get_metric_statistics(... Dimensions=[InstanceId] ...)
get_metric_statistics(instance_id) == [Datapoints |-> datapoints[instance_id]]

MetricRequest(instance_id) ==
    [api |-> "get_metric_statistics", params |-> <<instance_id>>]

RECURSIVE SumAverage(_)
\* sum(point.get("Average", 0) for point in datapoints), in eighths
SumAverage(points) ==
    IF points = <<>> THEN 0 ELSE Head(points).Average + SumAverage(Tail(points))

\* variant: the quotient cut to 2 decimals instead of rounded
RoundHundredths_Truncate(num, den) == (num * 100) \div den

\* round(num / den, 2) for num / den >= 0, as hundredths: Python rounds the
\* quotient to the nearest hundredth, an exact tie going to the even one
RoundHundredths(num, den) ==
    LET q == (num * 100) \div den
        r == (num * 100) % den
    IN  IF 2 * r < den THEN q
        ELSE IF 2 * r > den THEN q + 1
        ELSE IF q % 2 = 0 THEN q ELSE q + 1

\* average_cpu_utilization of one instance, in hundredths of a percent:
\* round(sum / len(datapoints), 2) if datapoints else 0
AverageCpu(points) ==
    IF points # <<>>
    THEN RoundHundredths(SumAverage(points), 8 * Len(points))
    ELSE 0

(* ------------------------------ outcomes ------------------------------- *)

\* a call that returned `value` (None is the empty value)
Returned(op, arg, value) ==
    [op |-> op, arg |-> arg, outcome |-> "return", exc |-> "", message |-> <<>>,
     value |-> value, status |-> ""]

\* a call that raised `exc` with the words of its message
Raised(op, arg, exc, message, status) ==
    [op |-> op, arg |-> arg, outcome |-> "raise", exc |-> exc, message |-> message,
     value |-> <<>>, status |-> status]

NoCallYet == Returned("none", None, <<>>)

NoIdCall == [valid |-> FALSE, arg |-> None, ids |-> <<>>, repeated |-> FALSE]

(* ------------------------------ EC2 methods ---------------------------- *)

\* variant: instance_ids outlives the call, so that a call right after another
\* get_instance_id appends to the previous answer
get_instance_id_Accumulating(instance_name) ==
    LET filters == BuildFilters(instance_name)
        instances == describe_instances(filters)
        flat == FlattenInstances(instances.Reservations)
        kept == IF result.op = "get_instance_id" THEN result.value ELSE <<>>
    IN  kept \o [i \in 1..Len(flat) |-> flat[i].InstanceId]

\* EC2.get_instance_id: the flat list of identifiers the describe call answers with
get_instance_id(instance_name) ==
    LET filters == BuildFilters(instance_name)
        instances == describe_instances(filters)
        flat == FlattenInstances(instances.Reservations)
    IN  [i \in 1..Len(flat) |-> flat[i].InstanceId]

\* a caller invoking get_instance_id
call_get_instance_id(instance_name) ==
    LET instance_ids == get_instance_id(instance_name)
    IN  /\ result' = Returned("get_instance_id", instance_name, instance_ids)
        /\ issued' = <<DescribeRequest(BuildFilters(instance_name))>>
        /\ UNCHANGED <<reservations, datapoints>>

\* variant: the last identifier instead of the first
FirstResolved_Last(instance_ids) ==
    IF instance_ids = <<>>
    THEN [ok |-> FALSE, ids |-> <<>>]
    ELSE [ok |-> TRUE, ids |-> <<instance_ids[Len(instance_ids)]>>]

\* variant: the whole list handed to the request, no indexing
FirstResolved_All(instance_ids) == [ok |-> TRUE, ids |-> instance_ids]

\* self.get_instance_id(instance_name)[0]: indexing an empty list raises
\* IndexError, otherwise the first identifier is the one acted upon
FirstResolved(instance_ids) ==
    IF instance_ids = <<>>
    THEN [ok |-> FALSE, ids |-> <<>>]
    ELSE [ok |-> TRUE, ids |-> <<instance_ids[1]>>]

\* variant: "stopping" taken as success
StopOutcome_StoppingSucceeds(instance_name, status) ==
    IF status = "stopped"
    THEN Raised("stop_instance", instance_name, "Exception",
                <<"Instance", instance_name.name, "is", "already", status, ".">>, status)
    ELSE IF status = "stopping"
    THEN [Returned("stop_instance", instance_name, <<>>) EXCEPT !.status = status]
    ELSE Raised("stop_instance", instance_name, "Exception",
                <<"Failed", "to", "stop", "instance", instance_name.name>>, status)

\* variant: the else branch returns instead of raising
StopOutcome_ElseReturns(instance_name, status) ==
    IF status = "stopped" \/ status = "stopping"
    THEN Raised("stop_instance", instance_name, "Exception",
                <<"Instance", instance_name.name, "is", "already", status, ".">>, status)
    ELSE [Returned("stop_instance", instance_name, <<>>) EXCEPT !.status = status]

\* what stop_instance does with the returned state
StopOutcome(instance_name, status) ==
    IF status = "stopped" \/ status = "stopping"
    THEN Raised("stop_instance", instance_name, "Exception",
                <<"Instance", instance_name.name, "is", "already", status, ".">>, status)
    ELSE Raised("stop_instance", instance_name, "Exception",
                <<"Failed", "to", "stop", "instance", instance_name.name>>, status)

\* variant: no "Failed to start" branch
StartOutcome_NoFailedBranch(instance_name, status) ==
    IF status = "running"
    THEN Raised("start_instance", instance_name, "Exception",
                <<"Instance", instance_name.name, "is", "already", "running", ".">>, status)
    ELSE [Returned("start_instance", instance_name, <<>>) EXCEPT !.status = status]

\* what start_instance does with the returned state
StartOutcome(instance_name, status) ==
    IF status = "running"
    THEN Raised("start_instance", instance_name, "Exception",
                <<"Instance", instance_name.name, "is", "already", "running", ".">>, status)
    ELSE IF status # "pending"
    THEN Raised("start_instance", instance_name, "Exception",
                <<"Failed", "to", "start", "instance", instance_name.name, ".">>, status)
    ELSE [Returned("start_instance", instance_name, <<>>) EXCEPT !.status = status]

\* EC2.stop_instance: resolve, take the first identifier, ask the provider to stop
\* it, then raise on the state the provider returned
stop_instance(instance_name) ==
    LET instance_id == FirstResolved(get_instance_id(instance_name))
        describe == DescribeRequest(BuildFilters(instance_name))
    IN  IF ~instance_id.ok
        THEN /\ result' = Raised("stop_instance", instance_name, "IndexError",
                                 <<"list", "index", "out", "of", "range">>, "")
             /\ issued' = <<describe>>
             /\ UNCHANGED <<reservations, datapoints>>
        ELSE \E status \in LifecycleStates :
                /\ issued' = <<describe,
                               [api |-> "stop_instances", params |-> instance_id.ids]>>
                /\ reservations' = SetState(reservations, instance_id.ids, status)
                /\ result' = StopOutcome(instance_name, status)
                /\ UNCHANGED datapoints
   
\* EC2.start_instance: the same with a start request; "pending" alone returns
start_instance(instance_name) ==
    LET instance_id == FirstResolved(get_instance_id(instance_name))
        describe == DescribeRequest(BuildFilters(instance_name))
    IN  IF ~instance_id.ok
        THEN /\ result' = Raised("start_instance", instance_name, "IndexError",
                                 <<"list", "index", "out", "of", "range">>, "")
             /\ issued' = <<describe>>
             /\ UNCHANGED <<reservations, datapoints>>
        ELSE \E status \in LifecycleStates :
                /\ issued' = <<describe,
                               [api |-> "start_instances", params |-> instance_id.ids]>>
                /\ reservations' = SetState(reservations, instance_id.ids, status)
                /\ result' = StartOutcome(instance_name, status)
                /\ UNCHANGED datapoints
   
\* the records get_instance_status builds, one per described instance
StatusRecords(instance_name) ==
    LET instances == describe_instances(BuildFilters(instance_name))
        flat == FlattenInstances(instances.Reservations)
    IN  [i \in 1..Len(flat) |->
            [instance_name |-> NameOf(flat[i]),
             instance_id |-> flat[i].InstanceId,
             instance_status |-> flat[i].State.Name]]

\* EC2.get_instance_status
get_instance_status(instance_name) ==
    /\ result' = Returned("get_instance_status", instance_name, StatusRecords(instance_name))
    /\ issued' = <<DescribeRequest(BuildFilters(instance_name))>>
    /\ UNCHANGED <<reservations, datapoints>>

\* the records get_instance_cpu_usage builds, one per described instance
CpuRecords(instance_name) ==
    LET instances == describe_instances(BuildFilters(instance_name))
        flat == FlattenInstances(instances.Reservations)
    IN  [i \in 1..Len(flat) |->
            [instance_name |-> NameOf(flat[i]),
             instance_id |-> flat[i].InstanceId,
             average_cpu_utilization |->
                 AverageCpu(get_metric_statistics(flat[i].InstanceId).Datapoints)]]

\* the local `instance_name` once the loop is over: the loop rebinds it to the
\* "Name" tag (or "N/A") of each instance it visits
NameAfterLoop(instance_name) ==
    LET instances == describe_instances(BuildFilters(instance_name))
        flat == FlattenInstances(instances.Reservations)
    IN  IF flat = <<>> THEN instance_name ELSE Str(NameOf(flat[Len(flat)]))

\* variant: an empty result raises whether or not a name was given
CpuRaises_AnyEmpty(instance_name, instance_statuses) == instance_statuses = <<>>

\* if instance_name and not instance_statuses
CpuRaises(instance_name, instance_statuses) ==
    Truthy(NameAfterLoop(instance_name)) /\ instance_statuses = <<>>

\* EC2.get_instance_cpu_usage
get_instance_cpu_usage(instance_name) ==
    LET instance_statuses == CpuRecords(instance_name)
    IN  /\ result' =
              IF CpuRaises(instance_name, instance_statuses)
              THEN Raised("get_instance_cpu_usage", instance_name, "Exception",
                          <<"No", "instances", "found", "with", "the", "name",
                            NameAfterLoop(instance_name).name, ".">>, "")
              ELSE Returned("get_instance_cpu_usage", instance_name, instance_statuses)
        /\ issued' = <<DescribeRequest(BuildFilters(instance_name))>> \o
                     [i \in 1..Len(instance_statuses) |->
                         MetricRequest(instance_statuses[i].instance_id)]
        /\ UNCHANGED <<reservations, datapoints>>

(* --------------------------- specifications ---------------------------- *)

\* the metrics the lifecycle specification runs against
FixedDatapoints ==
    [id \in InstanceIds |-> IF id = "i-1" THEN <<Point(320), Point(480)>> ELSE <<>>]

Init ==
    /\ reservations \in Inventories
    /\ datapoints = FixedDatapoints
    /\ result = NoCallYet
    /\ issued = <<>>
    /\ lastIdCall = NoIdCall

Next ==
    \/ \E n \in OptionalNames : call_get_instance_id(n) /\ UNCHANGED lastIdCall
    \/ \E n \in NameStrings : stop_instance(Str(n)) /\ UNCHANGED lastIdCall
    \/ \E n \in NameStrings : start_instance(Str(n)) /\ UNCHANGED lastIdCall
    \/ \E n \in OptionalNames : get_instance_status(n) /\ UNCHANGED lastIdCall
    \/ \E n \in OptionalNames : get_instance_cpu_usage(n) /\ UNCHANGED lastIdCall

Spec == Init /\ [][Next]_vars

\* The same calls with the last get_instance_id answer remembered: it stays
\* comparable until a stop or start request changes the inventory; `repeated`
\* tells that the filter was answered before, with another method called since.
RememberIdCall ==
    lastIdCall' = [valid |-> TRUE, arg |-> result'.arg, ids |-> result'.value,
                   repeated |-> /\ lastIdCall.valid
                                /\ lastIdCall.arg = result'.arg
                                /\ (lastIdCall.repeated \/ result.op # "get_instance_id")]

KeepIdCall ==
    lastIdCall' = IF reservations' = reservations THEN lastIdCall ELSE NoIdCall

\* inventories whose instances are all running
RunningInventories ==
    { rs \in Inventories :
        \A r \in 1..Len(rs) : \A i \in 1..Len(rs[r].Instances) :
            rs[r].Instances[i].State.Name = "running" }

InitIdem ==
    /\ reservations \in RunningInventories
    /\ datapoints = FixedDatapoints
    /\ result = NoCallYet
    /\ issued = <<>>
    /\ lastIdCall = NoIdCall

NextIdem ==
    \/ \E n \in OptionalNames : call_get_instance_id(n) /\ RememberIdCall
    \/ \E n \in NameStrings : stop_instance(Str(n)) /\ KeepIdCall
    \/ \E n \in NameStrings : start_instance(Str(n)) /\ KeepIdCall
    \/ \E n \in OptionalNames : get_instance_status(n) /\ KeepIdCall
    \/ \E n \in OptionalNames : get_instance_cpu_usage(n) /\ KeepIdCall

SpecIdem == InitIdem /\ [][NextIdem]_vars

\* The metrics query alone, over every content of the trailing window.
MetricsInventories ==
    { rs \in RunningInventories :
        \A r \in 1..Len(rs) : \A i \in 1..Len(rs[r].Instances) :
            rs[r].Instances[i].Tags # <<Tag("Env", "web"), Tag("Name", "db")>> }

InitMetrics ==
    /\ reservations \in MetricsInventories
    /\ datapoints \in [InstanceIds -> PointLists]
    /\ \A id \in InstanceIds :
          (\A r \in 1..Len(reservations) : \A i \in 1..Len(reservations[r].Instances) :
              reservations[r].Instances[i].InstanceId # id) => datapoints[id] = <<>>
    /\ result = NoCallYet
    /\ issued = <<>>
    /\ lastIdCall = NoIdCall

NextMetrics ==
    \E n \in OptionalNames : get_instance_cpu_usage(n) /\ UNCHANGED lastIdCall

SpecMetrics == InitMetrics /\ [][NextMetrics]_vars

(* ----------------------- vocabulary of the properties ------------------ *)

\* a message word with its capital letter dropped
Lower(w) ==
    CASE w = "Instance" -> "instance"
      [] w = "Failed" -> "failed"
      [] w = "No" -> "no"
      [] OTHER -> w

\* the words occur in the message, consecutively, whatever their case
ContainsWords(message, words) ==
    \E k \in 0..(Len(message) - Len(words)) :
        \A i \in 1..Len(words) : Lower(message[k + i]) = Lower(words[i])

\* places of the inventory, and the order the provider lists them in
Positions(rs) ==
    { p \in (1..Len(rs)) \X (1..Cardinality(InstanceIds)) : p[2] <= Len(rs[p[1]].Instances) }

Before(p, q) == p[1] < q[1] \/ (p[1] = q[1] /\ p[2] < q[2])

At(rs, p) == rs[p[1]].Instances[p[2]]

\* the instance carries the tag Name = n
HasName(inst, n) ==
    inst.HasTags /\ \E j \in 1..Len(inst.Tags) : inst.Tags[j] = Tag("Name", n)

\* the value of the instance's "Name" tag, or "N/A" when it has none
NameOrNA(inst) ==
    IF inst.HasTags /\ \E j \in 1..Len(inst.Tags) : inst.Tags[j].Key = "Name"
    THEN (CHOOSE t \in { inst.Tags[j] : j \in 1..Len(inst.Tags) } : t.Key = "Name").Value
    ELSE "N/A"

\* the places a name selects: those tagged Name = name for a non-empty name,
\* every place when the name is omitted or empty
Selected(rs, arg) == { p \in Positions(rs) : Truthy(arg) => HasName(At(rs, p), arg.name) }

\* the places a name selects when every provided name, the empty one too, is a filter
SelectedLiteral(rs, arg) == { p \in Positions(rs) : arg.given => HasName(At(rs, p), arg.name) }

Rank(p, S) == Cardinality({ q \in S : Before(q, p) }) + 1

\* seq lists F of the instances at the places S, in provider order
IsListing(seq, rs, S, F(_)) ==
    /\ Len(seq) = Cardinality(S)
    /\ \A p \in S : seq[Rank(p, S)] = F(At(rs, p))

IdOf(inst) == inst.InstanceId

StatusOf(inst) ==
    [instance_name |-> NameOrNA(inst), instance_id |-> inst.InstanceId,
     instance_status |-> inst.State.Name]

\* the first place a name selects
FirstSelected(rs, arg) ==
    CHOOSE p \in Selected(rs, arg) : \A q \in Selected(rs, arg) : q = p \/ Before(p, q)

\* the requests of one kind among those the last call sent
Requests(log, api) == SelectSeq(log, LAMBDA q : q.api = api)

\* the lifecycle state the inventory holds for an identifier
StateOfId(rs, id) ==
    At(rs, CHOOSE p \in Positions(rs) : At(rs, p).InstanceId = id).State.Name

IsMutation(op) == op \in {"stop_instance", "start_instance"}

ApiOf(op) == IF op = "stop_instance" THEN "stop_instances" ELSE "start_instances"


(* ------------------------------ properties ----------------------------- *)

\* C1: start_instance whose name resolves to an instance has three outcomes,
\* decided by the state the start request returned (now the state of the
\* instance the request was sent for): "pending" returns without raising,
\* "running" raises "... already running", every other state raises
\* "Failed to start ...".
C1_StartOutcomes ==
    (result.op = "start_instance" /\ Selected(reservations, result.arg) # {}) =>
        /\ Len(Requests(issued, "start_instances")) = 1
        /\ LET returned ==
                   StateOfId(reservations, Requests(issued, "start_instances")[1].params[1])
           IN  /\ returned = "pending" => result.outcome = "return"
               /\ returned = "running" =>
                      /\ result.outcome = "raise"
                      /\ ContainsWords(result.message, <<"already", "running">>)
               /\ returned \notin {"pending", "running"} =>
                      /\ result.outcome = "raise"
                      /\ ContainsWords(result.message, <<"failed", "to", "start">>)

\* C1 witness: a start request answered "terminated" made start_instance raise
\* "Failed to start", and one answered "pending" would have returned.
C1_Witness ==
    /\ result.op = "start_instance"
    /\ result.outcome = "raise"
    /\ Len(Requests(issued, "start_instances")) = 1
    /\ StateOfId(reservations, Requests(issued, "start_instances")[1].params[1]) = "terminated"
    /\ ContainsWords(result.message, <<"failed", "to", "start">>)

\* C2: stop_instance never returns normally: a returned state "stopped" or
\* "stopping" raises "... already <state>", any other returned state raises
\* "Failed to stop ...", and a name resolving to nothing raises too.
C2_StopAlwaysRaises ==
    result.op = "stop_instance" =>
        /\ result.outcome = "raise"
        /\ Selected(reservations, result.arg) # {} =>
              /\ Len(Requests(issued, "stop_instances")) = 1
              /\ LET returned ==
                         StateOfId(reservations, Requests(issued, "stop_instances")[1].params[1])
                 IN  IF returned \in {"stopped", "stopping"}
                     THEN ContainsWords(result.message, <<"already", returned>>)
                     ELSE ContainsWords(result.message, <<"failed", "to", "stop">>)

\* C2 witness: a stop request answered "stopping" (what a provider answers for
\* a running instance) made stop_instance raise "already stopping".
C2_Witness ==
    /\ result.op = "stop_instance"
    /\ result.outcome = "raise"
    /\ Len(Requests(issued, "stop_instances")) = 1
    /\ StateOfId(reservations, Requests(issued, "stop_instances")[1].params[1]) = "stopping"
    /\ ContainsWords(result.message, <<"already", "stopping">>)

\* C3 as stated: get_instance_id(N) returns, in provider order, exactly the
\* identifiers of the instances tagged Name = N whenever N is provided, and
\* every identifier when N is omitted; it never raises.
C3_Original ==
    result.op = "get_instance_id" =>
        /\ result.outcome = "return"
        /\ IsListing(result.value, reservations,
                     SelectedLiteral(reservations, result.arg), IdOf)

\* C3 amended: get_instance_id(N) returns, in provider order (reservation
\* order, then instance order), exactly the identifiers of the instances
\* tagged Name = N when N is a non-empty string, and every identifier when N
\* is omitted or is the empty string; it never raises.
C3_ResolvedIds ==
    result.op = "get_instance_id" =>
        /\ result.outcome = "return"
        /\ IsListing(result.value, reservations, Selected(reservations, result.arg), IdOf)

\* C3 witness: two instances in two reservations share the name asked for and
\* both identifiers came back.
C3_Witness ==
    /\ result.op = "get_instance_id"
    /\ Truthy(result.arg)
    /\ Len(reservations) = 2
    /\ Len(result.value) = 2

\* C4 as stated: get_instance_cpu_usage raises "No instances found with the
\* name X" whenever a name was supplied and no instance is tagged with it;
\* with the name omitted on an empty inventory it returns the empty list, and
\* get_instance_status and get_instance_id never raise.
C4_Original ==
    /\ (result.op = "get_instance_cpu_usage" /\ result.arg.given
            /\ SelectedLiteral(reservations, result.arg) = {}) =>
           /\ result.outcome = "raise"
           /\ ContainsWords(result.message,
                  <<"no", "instances", "found", "with", "the", "name", result.arg.name>>)
    /\ (result.op = "get_instance_cpu_usage" /\ ~result.arg.given /\ reservations = <<>>) =>
           (result.outcome = "return" /\ result.value = <<>>)
    /\ result.op \in {"get_instance_status", "get_instance_id"} => result.outcome = "return"

\* C4 amended: get_instance_cpu_usage raises "No instances found with the
\* name X" whenever a non-empty name was supplied and no instance is tagged
\* with it; with the name omitted or empty on an empty inventory it returns
\* the empty list, and get_instance_status and get_instance_id return (the
\* empty list when nothing is selected) without raising.
C4_EmptyResults ==
    /\ (result.op = "get_instance_cpu_usage" /\ Truthy(result.arg)
            /\ Selected(reservations, result.arg) = {}) =>
           /\ result.outcome = "raise"
           /\ ContainsWords(result.message,
                  <<"no", "instances", "found", "with", "the", "name", result.arg.name>>)
    /\ (result.op = "get_instance_cpu_usage" /\ ~Truthy(result.arg) /\ reservations = <<>>) =>
           (result.outcome = "return" /\ result.value = <<>>)
    /\ (result.op = "get_instance_cpu_usage" /\ Selected(reservations, result.arg) # {}) =>
           result.outcome = "return"
    /\ result.op \in {"get_instance_status", "get_instance_id"} =>
           /\ result.outcome = "return"
           /\ Selected(reservations, result.arg) = {} => result.value = <<>>

\* C4 witness: a metrics query for a name no instance of a non-empty inventory
\* carries has raised.
C4_Witness ==
    /\ result.op = "get_instance_cpu_usage"
    /\ result.outcome = "raise"
    /\ Truthy(result.arg)
    /\ reservations # <<>>

\* C5: when the name given to stop_instance or start_instance selects several
\* instances, exactly one stop/start request is sent, for the first of them in
\* provider order, none for any other instance, and the state that decided
\* the outcome is the one returned for that first instance.
C5_FirstOnly ==
    (IsMutation(result.op) /\ Cardinality(Selected(reservations, result.arg)) >= 2) =>
        LET first == At(reservations, FirstSelected(reservations, result.arg))
        IN  /\ Requests(issued, "stop_instances") \o Requests(issued, "start_instances")
                   = <<[api |-> ApiOf(result.op), params |-> <<first.InstanceId>>]>>
            /\ result.status = first.State.Name

\* C5 witness: two instances share the name, and the one request went to the
\* first of them.
C5_Witness ==
    /\ result.op = "stop_instance"
    /\ Truthy(result.arg)
    /\ Cardinality(Selected(reservations, result.arg)) = 2
    /\ Len(Requests(issued, "stop_instances")) = 1

\* C6: when the name given to start_instance or stop_instance selects no
\* instance, the call raises IndexError (index out of range), sends no start
\* or stop request, and leaves every lifecycle state as it was.
C6_ZeroMatches ==
    [][ (IsMutation(result'.op) /\ Selected(reservations, result'.arg) = {}) =>
            /\ result'.outcome = "raise"
            /\ result'.exc = "IndexError"
            /\ ContainsWords(result'.message, <<"index", "out", "of", "range">>)
            /\ Requests(issued', "stop_instances") = <<>>
            /\ Requests(issued', "start_instances") = <<>>
            /\ reservations' = reservations ]_vars

\* C6 witness: stop_instance on a name no instance of a non-empty inventory
\* carries failed with IndexError.
C6_Witness ==
    /\ result.op = "stop_instance"
    /\ result.exc = "IndexError"
    /\ reservations # <<>>
    /\ Len(issued) = 1

\* C7: get_instance_status never raises; it returns one record per instance
\* the provider returned, in provider order, carrying the instance's
\* identifier, its lifecycle state (one of the provider's states) and its
\* "Name" tag value, or "N/A" when it has no "Name" tag or no tags at all.
C7_StatusRecords ==
    result.op = "get_instance_status" =>
        /\ result.outcome = "return"
        /\ IsListing(result.value, reservations, Selected(reservations, result.arg), StatusOf)
        /\ \A i \in 1..Len(result.value) : result.value[i].instance_status \in LifecycleStates

\* C7 witness: two records came back, the first for an instance without tags
\* ("N/A"), the second for one whose "Name" tag follows another tag.
C7_Witness ==
    /\ result.op = "get_instance_status"
    /\ Len(result.value) = 2
    /\ result.value[1].instance_name = "N/A"
    /\ result.value[2].instance_name = "db"

\* the datapoints' "Average" summed, in eighths of a percent
SumOfAverages(points) ==
    LET partial[k \in 0..Len(points)] ==
            IF k = 0 THEN 0 ELSE partial[k - 1] + points[k].Average
    IN  partial[Len(points)]

\* C8: every record of get_instance_cpu_usage reports exactly 0 for an
\* instance with no datapoints, and otherwise the mean of the datapoints'
\* "Average" rounded to 2 decimals, that is the hundredth nearest to the mean;
\* datapoints [40.0, 60.0] give 50.00.
C8_AverageCpu ==
    (result.op = "get_instance_cpu_usage" /\ result.outcome = "return") =>
        \A i \in 1..Len(result.value) :
            LET points == datapoints[result.value[i].instance_id]
                avg == result.value[i].average_cpu_utilization
                den == 8 * Len(points)
                err == avg * den - 100 * SumOfAverages(points)
            IN  /\ points = <<>> => avg = 0
                /\ points # <<>> => (2 * err <= den /\ 2 * (0 - err) <= den)
                /\ points = <<Point(320), Point(480)>> => avg = 5000

\* C8 witness: one query reported 50.00 for datapoints [40.0, 60.0] and 0 for
\* an instance without datapoints.
C8_Witness ==
    /\ result.op = "get_instance_cpu_usage"
    /\ Len(result.value) = 2
    /\ datapoints[result.value[1].instance_id] = <<Point(320), Point(480)>>
    /\ result.value[1].average_cpu_utilization = 5000
    /\ datapoints[result.value[2].instance_id] = <<>>
    /\ result.value[2].average_cpu_utilization = 0

C10_RequestBeforeRaise ==
    [][ (IsMutation(result'.op) /\ Selected(reservations, result'.arg) # {}) =>
            /\ result'.outcome = "raise" =>
                  /\ Len(Requests(issued', ApiOf(result'.op))) = 1
                  /\ issued'[Len(issued')].api = ApiOf(result'.op)
            /\ (result'.op = "stop_instance"
                    /\ At(reservations, FirstSelected(reservations, result'.arg)).State.Name
                           = "running") =>
                  /\ result'.outcome = "raise"
                  /\ Requests(issued', "stop_instances") =
                         <<[api |-> "stop_instances",
                            params |-> <<At(reservations,
                                FirstSelected(reservations, result'.arg)).InstanceId>>]>> ]_vars

\* C10 witness: stop_instance raised "Failed to stop" although its request
\* was sent and the provider answered with another state for the instance.
C10_Witness ==
    /\ result.op = "stop_instance"
    /\ result.outcome = "raise"
    /\ ContainsWords(result.message, <<"failed", "to", "stop">>)
    /\ Len(Requests(issued, "stop_instances")) = 1
    /\ StateOfId(reservations, Requests(issued, "stop_instances")[1].params[1]) = "pending"

====
